---- MODULE Spec2Model ----
(***************************************************************************)
(* SecureDrop: the file validator, the security scanner and the upload     *)
(* pipeline (SecureDropAPI.uploadFile) with its lifecycle hooks, storage   *)
(* backend and audit logger.                                               *)
(*                                                                         *)
(* A file's content is a sequence of chunks; every chunk stands for a      *)
(* fixed byte string (ChunkBytes), so the leading bytes that the magic     *)
(* byte checks read are real bytes.  The chunks are chosen so that their   *)
(* text has one UTF-16 code unit per byte and so that no regular           *)
(* expression of the scanner matches across a chunk boundary: a regular    *)
(* expression is modelled by the span it matches inside each chunk.        *)
(***************************************************************************)
EXTENDS Integers, Sequences, FiniteSets, TLC

VARIABLES
    world,      \* "scanner": a SecurityScanner used directly (CLI); "validator": a
                \* FileValidator or BackendFileValidator used directly; "api": a
                \* SecureDropAPI; "audit": an AuditLogger used directly;
                \* "cleanup": cleanupExpiredFiles
    config,     \* SecurityScanner.config, fixed by the constructor
    hooks,      \* SecureDropAPI.hooks: the set of registered lifecycle hooks
    lastIndex,  \* lastIndex of each /g regular expression of defaultSignatures
    scanPc,     \* position of the scanFile call: "idle", "awaitVirus"
    scan,       \* the scanFile call in progress or last finished: its inputs
    scanResult, \* what the last scanFile call returned
    previous,   \* what the call before it returned, when it scanned the same file
    validation, \* the last validateFile, validateFiles or validateBuffer call on
                \* a validator used directly: its inputs and what it returned
    pc,         \* position of the uploadFile call
    call,       \* the uploadFile call in progress or last finished: its inputs
    trace,      \* the stages the uploadFile call has gone through, in order
    logged,     \* the entries the uploadFile call has passed to AuditLogger.log
    outcome,    \* how the uploadFile call ended
    cleanup     \* the cleanupExpiredFiles call in progress or last finished

vars == <<world, config, hooks, lastIndex, scanPc, scan, scanResult, previous,
          validation, pc, call, trace, logged, outcome, cleanup>>

(***************************************************************************)
(* Bounds                                                                  *)
(***************************************************************************)
\* longest file content, in chunks
MaxLen == 2
\* longest list of files handed to validateFiles
MaxBatch == 2
\* longest list that getExpiredFiles returns
MaxListed == 3

(***************************************************************************)
(* Files                                                                   *)
(***************************************************************************)
\* "MZ"   4D 5A 90 00            the start of a Windows PE header
\* "PDF"  "%PDF-1.4\n"
\* "IEX"  "IEX\n"                a PowerShell Invoke-Expression alias
\* "EVAL" "eval(x)\n"            a code-execution call
\* "TXT"  "hello\n"
\* and, in single files only:
\* "ZIP"    50 4B 03 04         a ZIP local-file header
\* "EICAR"  the EICAR antivirus test string
\* "ATTACK" "<script></script>SELECT a FROM b eval(${x}) bash -c IEX
\*          String.fromCharCode TVqQAAMAAAAEAAAA
\*          HKEY_LOCAL_MACHINE\Software\Microsoft\Windows\CurrentVersion\Run\n"
\*          (one line)
Chunks == {"MZ", "PDF", "IEX", "EVAL", "TXT"}

ChunkBytes(c) ==
    CASE c = "MZ"   -> <<77, 90, 144, 0>>
      [] c = "PDF"  -> <<37, 80, 68, 70, 45, 49, 46, 52, 10>>
      [] c = "IEX"  -> <<73, 69, 88, 10>>
      [] c = "EVAL" -> <<101, 118, 97, 108, 40, 120, 41, 10>>
      [] c = "TXT"  -> <<104, 101, 108, 108, 111, 10>>
      [] c = "ZIP"  -> <<80, 75, 3, 4>>
      [] c = "EICAR" ->
         <<
           88, 53, 79, 33, 80, 37, 64, 65, 80, 91, 52, 92, 80, 90, 88, 53,
           52, 40, 80, 94, 41, 55, 67, 67, 41, 55, 125, 36, 69, 73, 67, 65,
           82, 45, 83, 84, 65, 78, 68, 65, 82, 68, 45, 65, 78, 84, 73, 86,
           73, 82, 85, 83, 45, 84, 69, 83, 84, 45, 70, 73, 76, 69, 33, 36,
           72, 43, 72, 42 >>
      [] c = "ATTACK" ->
         <<
           60, 115, 99, 114, 105, 112, 116, 62, 60, 47, 115, 99, 114, 105,
           112, 116, 62, 83, 69, 76, 69, 67, 84, 32, 97, 32, 70, 82, 79,
           77, 32, 98, 32, 101, 118, 97, 108, 40, 36, 123, 120, 125, 41,
           32, 98, 97, 115, 104, 32, 45, 99, 32, 73, 69, 88, 32, 83, 116,
           114, 105, 110, 103, 46, 102, 114, 111, 109, 67, 104, 97, 114,
           67, 111, 100, 101, 32, 84, 86, 113, 81, 65, 65, 77, 65, 65, 65,
           65, 69, 65, 65, 65, 65, 32, 72, 75, 69, 89, 95, 76, 79, 67, 65,
           76, 95, 77, 65, 67, 72, 73, 78, 69, 92, 83, 111, 102, 116, 119,
           97, 114, 101, 92, 77, 105, 99, 114, 111, 115, 111, 102, 116, 92,
           87, 105, 110, 100, 111, 119, 115, 92, 67, 117, 114, 114, 101,
           110, 116, 86, 101, 114, 115, 105, 111, 110, 92, 82, 117, 110, 10 >>

RECURSIVE SeqsUpTo(_, _)
SeqsUpTo(S, n) ==
    IF n = 0 THEN {<<>>}
    ELSE LET shorter == SeqsUpTo(S, n - 1)
         IN  shorter \cup {Append(s, x) : s \in shorter, x \in S}

Contents == SeqsUpTo(Chunks, MaxLen)

\* A file name is the tuple of its parts between dots: filename.split(".").
\* <<>> is a name that is undefined; <<"">> is the empty string.
NoName == <<>>

\* the (name, declared MIME type) pairs of the files
FileKinds ==
    { <<<<"a", "txt">>, "text/plain">>,
      <<<<"photo", "jpg">>, "image/jpeg">>,
      <<<<"doc", "pdf">>, "application/pdf">>,
      <<<<"setup", "exe">>, "application/x-msdownload">>,
      <<<<"photo", "jpg">>, "text/html">>,
      <<NoName, "text/plain">> }

\* file.type of an object that has no type property
NoType == "undefined"

\* null passed where a File is expected
NoFile == [isNull |-> TRUE, name |-> NoName, type |-> "", content |-> <<>>,
           readable |-> FALSE]

\* readable: reading the content (slice().arrayBuffer(), text()) succeeds
Files ==
    { [isNull |-> FALSE, name |-> k[1], type |-> k[2], content |-> c,
       readable |-> TRUE] : k \in FileKinds, c \in Contents }
    \cup
    { [isNull |-> FALSE, name |-> k[1], type |-> k[2], content |-> <<"TXT">>,
       readable |-> FALSE] : k \in FileKinds }
    \cup
    { [isNull |-> FALSE, name |-> <<"a", "txt">>, type |-> NoType,
       content |-> <<"TXT">>, readable |-> TRUE],
      [isNull |-> FALSE, name |-> NoName, type |-> "application/x-msdownload",
       content |-> <<"TXT">>, readable |-> TRUE],
      [isNull |-> FALSE, name |-> NoName, type |-> "image/jpeg",
       content |-> <<"TXT">>, readable |-> TRUE],
      [isNull |-> FALSE, name |-> <<"photo", "png">>, type |-> "imagex/png",
       content |-> <<"TXT">>, readable |-> TRUE] }
    \cup
    { [isNull |-> FALSE, name |-> <<"a", "txt">>, type |-> "text/plain",
       content |-> c, readable |-> TRUE] :
        c \in {<<"ATTACK">>, <<"MZ", "ATTACK">>, <<"EICAR">>, <<"ZIP">>} }
    \cup
    { [isNull |-> FALSE, name |-> <<"a", "txt">>, type |-> "application/zip",
       content |-> <<"ZIP">>, readable |-> TRUE],
      [isNull |-> FALSE, name |-> <<"a", "txt">>, type |-> "application/x-zip-compressed",
       content |-> <<"ZIP">>, readable |-> TRUE],
      [isNull |-> FALSE, name |-> <<"archive", "ZIP">>, type |-> "text/plain",
       content |-> <<"ZIP">>, readable |-> TRUE],
      [isNull |-> FALSE, name |-> <<"archive", "zip", "txt">>, type |-> "text/plain",
       content |-> <<"ZIP">>, readable |-> TRUE] }
    \cup {NoFile}

RECURSIVE FileBytes(_)
FileBytes(content) ==
    IF content = <<>> THEN <<>>
    ELSE ChunkBytes(Head(content)) \o FileBytes(Tail(content))

\* file.size
FileSize(file) == Len(FileBytes(file.content))

\* file.slice(0, n): the first n bytes
Slice(file, n) ==
    LET b == FileBytes(file.content)
    IN  SubSeq(b, 1, IF Len(b) < n THEN Len(b) ELSE n)

\* offset of chunk j in the file's text
RECURSIVE Off(_, _)
Off(content, j) ==
    IF j <= 1 THEN 0 ELSE Off(content, j - 1) + Len(ChunkBytes(content[j - 1]))

(***************************************************************************)
(* Security scanner                                                        *)
(***************************************************************************)
\* String.prototype.toLowerCase on the strings of the model
\* a comparison of the name that is sensitive to case
toLowerCaseUnchanged(s) == s

toLowerCase(s) ==
    CASE s = "JPG" -> "jpg"
      [] s = "ZIP" -> "zip"
      [] s = "EXE" -> "exe"
      [] s = "TXT" -> "txt"
      [] OTHER -> s

Last(seq) == seq[Len(seq)]

Threat(type, name, severity, matches) ==
    [type |-> type, name |-> name, severity |-> severity, matches |-> matches]

\* SECURITY_CONFIGS, and MODERATE with a virusScannerEndpoint set
SECURITY_CONFIGS ==
    [ STRICT |->
        [enableVirusScanning |-> TRUE, enableInjectionDetection |-> TRUE,
         enableYaraScanning |-> TRUE, yaraRules |-> <<"malware.yar", "suspicious.yar">>,
         virusScannerEndpoint |-> FALSE, suspiciousPatterns |-> <<>>],
      MODERATE |->
        [enableVirusScanning |-> TRUE, enableInjectionDetection |-> TRUE,
         enableYaraScanning |-> FALSE, yaraRules |-> <<>>,
         virusScannerEndpoint |-> FALSE, suspiciousPatterns |-> <<>>],
      BASIC |->
        [enableVirusScanning |-> FALSE, enableInjectionDetection |-> TRUE,
         enableYaraScanning |-> FALSE, yaraRules |-> <<>>,
         virusScannerEndpoint |-> FALSE, suspiciousPatterns |-> <<>>] ]

WithEndpoint(cfg) == [cfg EXCEPT !.virusScannerEndpoint = TRUE]

\* suspiciousPatterns: [/hello/]
WithPatterns(cfg) == [cfg EXCEPT !.suspiciousPatterns = <<"hello">>]

\* enableInjectionDetection: false
WithoutInjectionDetection(cfg) == [cfg EXCEPT !.enableInjectionDetection = FALSE]

Configs == { SECURITY_CONFIGS.STRICT, SECURITY_CONFIGS.MODERATE,
             SECURITY_CONFIGS.BASIC, WithEndpoint(SECURITY_CONFIGS.MODERATE),
             WithPatterns(SECURITY_CONFIGS.BASIC),
             WithoutInjectionDetection(WithPatterns(SECURITY_CONFIGS.BASIC)) }

matchesSignature(bytes, signature) ==
    IF Len(bytes) < Len(signature) THEN FALSE
    ELSE \A index \in 1..Len(signature) : bytes[index] = signature[index]

executableSignatures ==
    << [signature |-> <<77, 90>>, name |-> "Windows PE Executable",
        severity |-> "critical"],
       [signature |-> <<127, 69, 76, 70>>, name |-> "Linux ELF Executable",
        severity |-> "critical"],
       [signature |-> <<254, 237, 250, 206>>, name |-> "Mach-O Executable",
        severity |-> "critical"],
       [signature |-> <<202, 254, 186, 190>>, name |-> "Java Class File",
        severity |-> "high"],
       [signature |-> <<80, 75, 3, 4>>, name |-> "ZIP Archive (potential)",
        severity |-> "medium"] >>

\* scriptPatterns of validateMimeAndMagicBytes: whether one of them matches
\* the text of the chunk ("ATTACK" starts with <script>)
ScriptPatternHit(c) == c = "ATTACK"

\* The for-loop over executableSignatures.  file.name.toLowerCase() is only
\* evaluated when the ZIP signature matched and the declared type is no
\* archive type; it throws when the name is undefined.
RECURSIVE SignatureLoop(_, _, _, _)
SignatureLoop(file, bytes, i, acc) ==
    IF i > Len(executableSignatures) THEN [threats |-> acc, threw |-> FALSE]
    ELSE
      LET sig == executableSignatures[i]
          isZip == sig.name = "ZIP Archive (potential)"
      IN  IF ~matchesSignature(bytes, sig.signature)
            THEN SignatureLoop(file, bytes, i + 1, acc)
          ELSE IF isZip /\ file.type \in {"application/zip", "application/x-zip-compressed"}
            THEN SignatureLoop(file, bytes, i + 1, acc)
          ELSE IF isZip /\ file.name = NoName
            THEN [threats |-> acc, threw |-> TRUE]
          ELSE IF isZip /\ Len(file.name) > 1 /\ toLowerCase(Last(file.name)) = "zip"
            THEN SignatureLoop(file, bytes, i + 1, acc)
          ELSE SignatureLoop(file, bytes, i + 1,
                 Append(acc, Threat("suspicious_content", sig.name, sig.severity, 0)))

\* Every exception inside is caught and ignored: the threats pushed so far
\* are returned.
validateMimeAndMagicBytes(file) ==
    IF file.isNull \/ ~file.readable THEN <<>>
    ELSE
      LET bytes == Slice(file, 64)
          loop == SignatureLoop(file, bytes, 1, <<>>)
          header == { j \in 1..Len(file.content) :
                        /\ Off(file.content, j) + 8 <= 64
                        /\ ScriptPatternHit(file.content[j]) }
      IN  IF loop.threw THEN loop.threats
          ELSE IF header # {}
            THEN Append(loop.threats, Threat("injection", "Script Injection", "high", 0))
          ELSE loop.threats

\* injectionPatterns of detectInjectionPatterns, in order
injectionPatterns ==
    << [name |-> "SQL Injection", severity |-> "high"],
       [name |-> "Cross-Site Scripting (XSS)", severity |-> "high"],
       [name |-> "Code Injection", severity |-> "critical"],
       [name |-> "Template Injection", severity |-> "medium"],
       [name |-> "Command Injection", severity |-> "high"] >>

\* the number of matches of an injection pattern inside the text of a chunk
InjectionMatches(rule, c) ==
    IF rule = "Code Injection" /\ c = "EVAL" THEN 1
    ELSE IF c = "ATTACK" THEN 1
    ELSE 0

RECURSIVE CountMatches(_, _)
CountMatches(rule, content) ==
    IF content = <<>> THEN 0
    ELSE InjectionMatches(rule, Head(content)) + CountMatches(rule, Tail(content))

RECURSIVE InjectionLoop(_, _, _)
InjectionLoop(content, i, acc) ==
    IF i > Len(injectionPatterns) THEN acc
    ELSE LET p == injectionPatterns[i]
             n == CountMatches(p.name, content)
         IN  InjectionLoop(content, i + 1,
               IF n > 0 THEN Append(acc, Threat("injection", p.name, p.severity, n))
               ELSE acc)

\* pattern.test(text) for a pattern of config.suspiciousPatterns
PatternHit(pattern, content) ==
    pattern = "hello" /\ \E j \in 1..Len(content) : content[j] = "TXT"

\* the loop over config.suspiciousPatterns
RECURSIVE CustomPatternLoop(_, _, _, _)
CustomPatternLoop(content, patterns, i, acc) ==
    IF i > Len(patterns) THEN acc
    ELSE CustomPatternLoop(content, patterns, i + 1,
           IF PatternHit(patterns[i], content)
             THEN Append(acc, Threat("suspicious_content", "Custom Pattern Match",
                                     "medium", 0))
           ELSE acc)

\* a loop over the injection patterns that stops at the first rule that matched
detectInjectionPatternsStoppingAtFirst(file, cfg) ==
    IF file.isNull \/ ~file.readable THEN <<>>
    ELSE LET found == InjectionLoop(file.content, 1, <<>>)
         IN  CustomPatternLoop(file.content, cfg.suspiciousPatterns, 1,
                               IF found = <<>> THEN <<>> ELSE <<Head(found)>>)

\* file.text() failing is caught: no threat
detectInjectionPatterns(file, cfg) ==
    IF file.isNull \/ ~file.readable THEN <<>>
    ELSE CustomPatternLoop(file.content, cfg.suspiciousPatterns, 1,
                           InjectionLoop(file.content, 1, <<>>))

matchesYaraRule(content, rule) == rule = "malware.yar" /\ Len(content) > 0

RECURSIVE YaraLoop(_, _, _, _)
YaraLoop(bytes, rules, i, acc) ==
    IF i > Len(rules) THEN acc
    ELSE YaraLoop(bytes, rules, i + 1,
           IF matchesYaraRule(bytes, rules[i])
             THEN Append(acc, Threat("yara_match", rules[i], "high", 0))
           ELSE acc)

scanWithYaraRules(file, cfg) ==
    IF file.isNull \/ ~file.readable THEN <<>>
    ELSE YaraLoop(FileBytes(file.content), cfg.yaraRules, 1, <<>>)

\* initializeDefaultSignatures: every pattern carries the g flag
defaultSignatures ==
    << [name |-> "Base64 Encoded Executable", severity |-> "high"],
       [name |-> "Suspicious PowerShell", severity |-> "high"],
       [name |-> "Obfuscated JavaScript", severity |-> "medium"],
       [name |-> "Suspicious Registry Access", severity |-> "high"] >>

SignatureNames == { defaultSignatures[i].name : i \in 1..Len(defaultSignatures) }

\* the span <<start, end>> a default signature matches inside the text of a
\* chunk, <<>> when it does not match
SignatureHit(sig, c) ==
    CASE sig = "Suspicious PowerShell" /\ c = "IEX" -> <<0, 3>>
      [] sig = "Suspicious PowerShell" /\ c = "ATTACK" -> <<52, 55>>
      [] sig = "Obfuscated JavaScript" /\ c = "ATTACK" -> <<56, 75>>
      [] sig = "Base64 Encoded Executable" /\ c = "ATTACK" -> <<76, 92>>
      [] sig = "Suspicious Registry Access" /\ c = "ATTACK" -> <<93, 157>>
      [] OTHER -> <<>>

SetMin(S) == CHOOSE x \in S : \A y \in S : x <= y

\* RegExp.prototype.test of a /g expression: the search starts at the
\* expression's lastIndex, a match moves lastIndex to its end and a failure
\* resets it to 0
RegExpTest(sig, content, li) ==
    LET starts == { j \in 1..Len(content) :
                      /\ SignatureHit(sig, content[j]) # <<>>
                      /\ Off(content, j) + SignatureHit(sig, content[j])[1] >= li }
    IN  IF li > Len(FileBytes(content)) \/ starts = {}
          THEN [found |-> FALSE, lastIndex |-> 0]
        ELSE LET j == SetMin(starts)
             IN  [found |-> TRUE,
                  lastIndex |-> Off(content, j) + SignatureHit(sig, content[j])[2]]

RECURSIVE SignatureScanLoop(_, _, _, _)
SignatureScanLoop(content, li, i, acc) ==
    IF i > Len(defaultSignatures) THEN acc
    ELSE LET s == defaultSignatures[i]
         IN  SignatureScanLoop(content, li, i + 1,
               IF RegExpTest(s.name, content, li[s.name]).found
                 THEN Append(acc, Threat("suspicious_content", s.name, s.severity, 0))
               ELSE acc)

\* The threats found and the lastIndex the expressions are left with.
\* file.text() failing is caught before any expression is tried.
scanCustomSignatures(file, li) ==
    IF file.isNull \/ ~file.readable THEN [threats |-> <<>>, lastIndex |-> li]
    ELSE [threats |-> SignatureScanLoop(file.content, li, 1, <<>>),
          lastIndex |-> [s \in SignatureNames |->
                           RegExpTest(s, file.content, li[s]).lastIndex]]

\* what the virus-scan endpoint does with the request
VirusReplies == {"transport_error", "not_ok", "bad_json", "clean", "infected"}
VirusFailures == {"transport_error", "not_ok", "bad_json"}

\* scanForViruses with a failed request reported as a threat
scanForVirusesReportingFailure(reply) ==
    IF reply = "infected"
      THEN <<Threat("virus", "Unknown Virus", "critical", 0)>>
    ELSE IF reply \in VirusFailures
      THEN <<Threat("suspicious_content", "Virus Scan Failed", "medium", 0)>>
    ELSE <<>>

\* scanForViruses once the fetch has settled with `reply`; "none" when no
\* request was made
scanForViruses(reply) ==
    IF reply = "infected"
      THEN <<Threat("virus", "Unknown Virus", "critical", 0)>>
    ELSE <<>>

suspiciousCombinations ==
    { <<"txt", "application/octet-stream">>, <<"jpg", "text/html">>,
      <<"png", "text/javascript">>, <<"pdf", "text/html">> }

\* Not guarded by a try: reading file.size of null and file.name.split of an
\* undefined name throw.
analyzeFileStructure(file) ==
    IF file.isNull \/ file.name = NoName THEN [threats |-> <<>>, threw |-> TRUE]
    ELSE
      LET empty == IF FileSize(file) = 0
                     THEN <<Threat("suspicious_content", "Empty File", "low", 0)>>
                   ELSE <<>>
          extension == toLowerCase(Last(file.name))
          mismatch == IF <<extension, file.type>> \in suspiciousCombinations
                        THEN <<Threat("suspicious_content", "MIME Type Mismatch", "medium", 0)>>
                      ELSE <<>>
      IN  [threats |-> empty \o mismatch, threw |-> FALSE]

HasSeverity(threats, sev) == \E i \in 1..Len(threats) : threats[i].severity = sev

\* 1 - threats.length * 0.1 without Math.max
ConfidenceUnclamped(threats) == 10 - Len(threats)

\* confidence in tenths: Math.max(0, 1 - threats.length * 0.1)
Confidence(threats) == IF Len(threats) >= 10 THEN 0 ELSE 10 - Len(threats)

\* the catch block of scanFile
ScanErrorResult ==
    [threw |-> FALSE, full |-> TRUE, isClean |-> FALSE,
     threats |-> <<Threat("suspicious_content", "Scan Error", "medium", 0)>>,
     confidence |-> 0, quarantined |-> TRUE]

\* scanFile up to the virus scan: stages 1 to 4
ScanStages(file, cfg, li) ==
    LET mime == validateMimeAndMagicBytes(file)
        inj == IF cfg.enableInjectionDetection THEN detectInjectionPatterns(file, cfg) ELSE <<>>
        yara == IF cfg.enableYaraScanning THEN scanWithYaraRules(file, cfg) ELSE <<>>
        custom == scanCustomSignatures(file, li)
    IN  [threats |-> mime \o inj \o yara \o custom.threats,
         lastIndex |-> custom.lastIndex]

\* whether scanFile makes a request to the virus-scan endpoint
CallsEndpoint(cfg) == cfg.enableVirusScanning /\ cfg.virusScannerEndpoint

\* scanFile without its try block: an exception of a stage reaches the caller
ScanVerdictWithoutCatch(file, before, reply) ==
    LET structural == analyzeFileStructure(file)
        threats == before \o scanForViruses(reply) \o structural.threats
        isClean == ~HasSeverity(threats, "critical") /\ ~HasSeverity(threats, "high")
    IN  [threw |-> structural.threw, full |-> TRUE, isClean |-> isClean,
         threats |-> threats, confidence |-> Confidence(threats),
         quarantined |-> ~isClean]

\* scanFile from the virus scan on: stages 5 and 6, the verdict, the catch
ScanVerdict(file, before, reply) ==
    LET structural == analyzeFileStructure(file)
        threats == before \o scanForViruses(reply) \o structural.threats
        isClean == ~HasSeverity(threats, "critical") /\ ~HasSeverity(threats, "high")
    IN  IF structural.threw THEN ScanErrorResult
        ELSE [threw |-> FALSE, full |-> TRUE, isClean |-> isClean, threats |-> threats,
              confidence |-> Confidence(threats), quarantined |-> ~isClean]

(***************************************************************************)
(* File validator                                                          *)
(***************************************************************************)
DEFAULT_CONFIGS ==
    [ IMAGE_ONLY |->
        [maxFileSize |-> 5 * 1024 * 1024,
         allowedMimeTypes |-> <<"image/*">>,
         allowedExtensions |-> {"jpg", "jpeg", "png", "gif", "webp"},
         maxFiles |-> 10,
         requireHash |-> TRUE],
      DOCUMENT_ONLY |->
        [maxFileSize |-> 10 * 1024 * 1024,
         allowedMimeTypes |-> <<"application/pdf", "text/*">>,
         allowedExtensions |-> {"pdf", "txt", "doc", "docx"},
         maxFiles |-> 5,
         requireHash |-> TRUE],
      GENERAL |->
        [maxFileSize |-> 10 * 1024 * 1024,
         allowedMimeTypes |-> <<"image/*", "application/pdf", "text/*">>,
         allowedExtensions |-> {"jpg", "jpeg", "png", "gif", "webp", "pdf", "txt"},
         maxFiles |-> 10,
         requireHash |-> TRUE] ]

\* a configuration of the caller's own: new FileValidator({maxFileSize: 8,
\* allowedMimeTypes: ["text/plain"], allowedExtensions: ["txt"], maxFiles: 1,
\* requireHash: false})
StrictTextConfig ==
    [maxFileSize |-> 8,
     allowedMimeTypes |-> <<"text/plain">>,
     allowedExtensions |-> {"txt"},
     maxFiles |-> 1,
     requireHash |-> FALSE]

\* the configurations a FileValidator or BackendFileValidator is constructed with
ValidatorConfigs ==
    { DEFAULT_CONFIGS.GENERAL, DEFAULT_CONFIGS.IMAGE_ONLY, StrictTextConfig }

\* String.prototype.startsWith on the MIME types and prefixes of the model
StartsWith(s, prefix) ==
    <<s, prefix>> \in { <<"image/jpeg", "image">>, <<"imagex/png", "image">>,
                        <<"text/plain", "text">>, <<"text/html", "text">> }

\* allowedType.endsWith("/*") and allowedType.slice(0, -2)
IsWildcard(allowedType) == allowedType \in {"image/*", "text/*"}
WildcardPrefix(allowedType) ==
    CASE allowedType = "image/*" -> "image"
      [] allowedType = "text/*" -> "text"

isMatchingMimeType(fileType, allowedType) ==
    IF IsWildcard(allowedType) THEN StartsWith(fileType, WildcardPrefix(allowedType))
    ELSE fileType = allowedType

getFileExtension(name) ==
    IF Len(name) > 1 THEN toLowerCase(Last(name)) ELSE ""

\* signatures of validateMagicBytes, by declared MIME type
MagicSignatures(type) ==
    CASE type = "image/jpeg" -> {<<255, 216, 255>>}
      [] type = "image/png" -> {<<137, 80, 78, 71, 13, 10, 26, 10>>}
      [] type = "image/gif" -> {<<71, 73, 70, 56, 55, 97>>, <<71, 73, 70, 56, 57, 97>>}
      [] type = "application/pdf" -> {<<37, 80, 68, 70>>}
      [] OTHER -> {}

\* signature.every((byte, index) => bytes[index] === byte): an index past
\* the end reads undefined, which equals no byte
EveryByte(bytes, signature) ==
    \A index \in 1..Len(signature) :
        index <= Len(bytes) /\ bytes[index] = signature[index]

\* a signature check that accepts every file
validateMagicBytesSkipped(file) == ""

\* "" when the signature is accepted, the error otherwise
validateMagicBytes(file) ==
    IF ~file.readable THEN "Could not read file signature"
    ELSE IF file.type \in {"", NoType, "application/octet-stream"} THEN ""
    ELSE IF MagicSignatures(file.type) = {} THEN ""
    ELSE IF \E sig \in MagicSignatures(file.type) : EveryByte(Slice(file, 16), sig) THEN ""
    ELSE "File signature does not match expected type"

\* { isValid: errors.length === 0, errors, warnings } with the warnings
\* counted as errors
ValidationResultBlockedByWarnings(errors, warnings) ==
    [threw |-> FALSE, isValid |-> Len(errors) = 0 /\ Len(warnings) = 0,
     errors |-> errors, warnings |-> warnings]

ValidationResult(errors, warnings) ==
    [threw |-> FALSE, isValid |-> Len(errors) = 0, errors |-> errors,
     warnings |-> warnings]

\* allowedMimeTypes.some(...) of validateFile, outside any try block:
\* fileType.startsWith(prefix) is a TypeError when file.type is undefined
MimeCheckThrows(file, cfg) ==
    /\ file.type = NoType
    /\ \E i \in 1..Len(cfg.allowedMimeTypes) : IsWildcard(cfg.allowedMimeTypes[i])

\* the checks of validateFile and validateBuffer, each "" when it passes
SizeError(file, cfg) ==
    IF FileSize(file) > cfg.maxFileSize
      THEN "File size exceeds maximum allowed size" ELSE ""

MimeError(file, cfg) ==
    IF Len(cfg.allowedMimeTypes) > 0
       /\ ~\E i \in 1..Len(cfg.allowedMimeTypes) :
              isMatchingMimeType(file.type, cfg.allowedMimeTypes[i])
      THEN "File type is not allowed" ELSE ""

ExtensionError(file, cfg) ==
    IF cfg.allowedExtensions # {}
       /\ toLowerCase(getFileExtension(file.name)) \notin cfg.allowedExtensions
      THEN "File extension is not allowed" ELSE ""

\* errors.push for every check that failed, in order
Errors(texts) == SelectSeq(texts, LAMBDA t : t # "")

\* generateFileHash: file.arrayBuffer(), then crypto.subtle.digest
HashWarning(cfg, readable, digestOk) ==
    IF cfg.requireHash /\ (~readable \/ ~digestOk)
      THEN <<"Could not generate file hash">> ELSE <<>>

validateFile(file, cfg, digestOk) ==
    IF file.isNull THEN [ValidationResult(<<"File is required">>, <<>>) EXCEPT !.isValid = FALSE]
    ELSE IF file.name = NoName \/ file.name = <<"">>
      THEN [ValidationResult(<<"File name is required">>, <<>>) EXCEPT !.isValid = FALSE]
    ELSE IF MimeCheckThrows(file, cfg)
      THEN [threw |-> TRUE, isValid |-> FALSE, errors |-> <<>>, warnings |-> <<>>]
    ELSE
      ValidationResult(
        Errors(<<SizeError(file, cfg), MimeError(file, cfg), ExtensionError(file, cfg),
                 validateMagicBytes(file)>>),
        HashWarning(cfg, file.readable, digestOk))

\* a buffer validator that does not look at the signature
validateBufferMagicBytesSkipped(file) == ""

\* BackendFileValidator.validateMagicBytes: the bytes are those of a Buffer
\* in memory
validateBufferMagicBytes(file) ==
    IF MagicSignatures(file.type) = {} THEN ""
    ELSE IF \E sig \in MagicSignatures(file.type) : EveryByte(FileBytes(file.content), sig)
      THEN ""
    ELSE "File signature does not match expected type"

\* validateBuffer(buffer, filename, mimeType), the three taken from `file`:
\* buffer.length of a missing buffer and filename.split of a missing
\* filename are TypeErrors
validateBuffer(file, cfg, digestOk) ==
    IF file.isNull \/ file.name = NoName \/ MimeCheckThrows(file, cfg)
      THEN [threw |-> TRUE, isValid |-> FALSE, errors |-> <<>>, warnings |-> <<>>]
    ELSE
      ValidationResult(
        Errors(<<SizeError(file, cfg), MimeError(file, cfg), ExtensionError(file, cfg),
                 validateBufferMagicBytes(file)>>),
        HashWarning(cfg, TRUE, digestOk))

\* a file name as the string it is: its parts joined by dots
RECURSIVE NameText(_)
NameText(name) ==
    IF name = <<>> THEN ""
    ELSE IF Len(name) = 1 THEN name[1]
    ELSE name[1] \o "." \o NameText(Tail(name))

\* files[index]?.name || 'unknown'
NameOrUnknown(file) ==
    IF file.isNull \/ file.name \in {NoName, <<"">>} THEN "unknown"
    ELSE NameText(file.name)

\* the label with the index of the array, which counts from 0
LabelledFromZero(index, file, text) ==
    "File " \o ToString(index - 1) \o " (" \o NameOrUnknown(file) \o "): " \o text

\* `File ${index + 1} (${files[index]?.name || 'unknown'}): ${text}`, index
\* counting from 1 here
Labelled(index, file, text) ==
    "File " \o ToString(index) \o " (" \o NameOrUnknown(file) \o "): " \o text

\* `Too many files. Maximum allowed: ${maxFiles}, provided: ${files.length}`
TooManyFiles(maxFiles, provided) ==
    "Too many files. Maximum allowed: " \o ToString(maxFiles)
      \o ", provided: " \o ToString(provided)

RECURSIVE LabelAll(_, _, _)
LabelAll(index, file, texts) ==
    IF texts = <<>> THEN <<>>
    ELSE <<Labelled(index, file, Head(texts))>> \o LabelAll(index, file, Tail(texts))

\* results.forEach of validateFiles from index i on; which: "errors" or
\* "warnings"
RECURSIVE Collect(_, _, _, _, _)
Collect(files, cfg, digestOk, which, i) ==
    IF i > Len(files) THEN <<>>
    ELSE LET result == validateFile(files[i], cfg, digestOk)
             texts == IF which = "warnings" THEN result.warnings
                      ELSE IF ~result.isValid THEN result.errors
                      ELSE <<>>
         IN  LabelAll(i, files[i], texts) \o Collect(files, cfg, digestOk, which, i + 1)

\* Promise.all rejects when one validateFile call throws
validateFiles(files, cfg, digestOk) ==
    IF \E i \in 1..Len(files) : validateFile(files[i], cfg, digestOk).threw
      THEN [threw |-> TRUE, isValid |-> FALSE, errors |-> <<>>, warnings |-> <<>>]
    ELSE
      ValidationResult(
        (IF Len(files) > cfg.maxFiles
           THEN <<TooManyFiles(cfg.maxFiles, Len(files))>> ELSE <<>>)
          \o Collect(files, cfg, digestOk, "errors", 1),
        Collect(files, cfg, digestOk, "warnings", 1))

\* malwareSignatures of performSecurityScan: buffer.includes(the EICAR test
\* string)
ContainsEicar(content) ==
    \E j \in 1..Len(content) : content[j] = "EICAR"

suspiciousExtensions == {"exe", "bat", "cmd", "scr", "pif"}

\* performSecurityScan(buffer, filename): filename.toLowerCase() throws for an
\* undefined name, buffer.includes for a missing buffer; confidence and
\* quarantined are not set
performSecurityScan(file) ==
    IF file.isNull \/ file.name = NoName
      THEN [threw |-> TRUE, full |-> FALSE, isClean |-> FALSE, threats |-> <<>>,
            confidence |-> 0, quarantined |-> FALSE]
    ELSE
      LET hasSuspiciousExtension ==
              Len(file.name) > 1 /\ toLowerCase(Last(file.name)) \in suspiciousExtensions
          threats ==
              (IF hasSuspiciousExtension
                 THEN <<Threat("suspicious_content", "Suspicious Extension", "medium", 0)>>
               ELSE <<>>)
              \o (IF ContainsEicar(file.content)
                    THEN <<Threat("malware", "Malware Signature", "high", 0)>>
                  ELSE <<>>)
      IN  [threw |-> FALSE, full |-> FALSE, isClean |-> Len(threats) = 0,
           threats |-> threats, confidence |-> 0, quarantined |-> FALSE]

\* scanFile as one function of its inputs: the file, the configuration, the
\* lastIndex it finds in the default signatures and the endpoint's reply
scanFile(file, cfg, li, reply) ==
    ScanVerdict(file, ScanStages(file, cfg, li).threats,
                IF CallsEndpoint(cfg) THEN reply ELSE "none")

(***************************************************************************)
(* Upload pipeline                                                         *)
(***************************************************************************)
HookNames == {"beforeUpload", "afterValidation", "beforeScan", "afterScan",
              "beforeStore", "afterStore", "onError"}

\* the configurations a SecureDropAPI is constructed with
ApiConfigs == { SECURITY_CONFIGS.MODERATE, WithEndpoint(SECURITY_CONFIGS.MODERATE) }

\* the files handed to uploadFile
UploadFiles ==
    { f \in Files :
        \/ f.isNull
        \/ f.name = <<"a", "txt">> /\ f.content \in {<<>>, <<"TXT">>, <<"EVAL">>, <<"MZ">>}
        \/ f.name = <<"setup", "exe">> /\ f.readable /\ f.content = <<"TXT">>
        \/ f.name = <<"photo", "jpg">> /\ f.type = "image/jpeg" /\ f.content = <<"MZ">> }

\* supabase.auth.getUser(): user.id
UserId == "user-1"

Null == "null"

Event(stage, result) == [stage |-> stage, result |-> result]

\* an identifier that the entry does not have (userId is optional)
Undefined == "undefined"

\* AuditLogger.log with the identifiers handed on as they are
sanitizedEntryAsGiven(action, resourceId, userId, details, sinkOk) ==
    [action |-> action, resource_id |-> resourceId, user_id |-> userId,
     details |-> details,
     given |-> [resourceId |-> resourceId, userId |-> userId],
     persisted |-> sinkOk]

\* AuditLogger.log: the row handed to the audit store and whether the store
\* took it; a failure of the store is logged to the console and swallowed
\* given: the identifiers of the entry that log was called with
sanitizedEntry(action, resourceId, userId, details, sinkOk) ==
    [action |-> action,
     resource_id |-> IF resourceId \notin {Undefined, ""} THEN resourceId ELSE Null,
     user_id |-> IF userId \notin {Undefined, ""} THEN userId ELSE Null,
     details |-> details,
     given |-> [resourceId |-> resourceId, userId |-> userId],
     persisted |-> sinkOk]

Stages(tr) == { tr[i].stage : i \in 1..Len(tr) }
Has(tr, stage, result) == \E i \in 1..Len(tr) : tr[i] = Event(stage, result)
Actions(log) == { log[i].action : i \in 1..Len(log) }

InitialLastIndex == [s \in SignatureNames |-> 0]

\* state: "none", "pending" (scanFile waits for the endpoint), "returned";
\* by: the function called, "scanFile" or "performSecurityScan"
NoScan == [state |-> "none", by |-> "scanFile", file |-> NoFile,
           pre |-> InitialLastIndex, before |-> <<>>, reply |-> "none"]
\* full: confidence and quarantined are set (they are optional in sdk/types.ts)
NoResult == [threw |-> FALSE, full |-> TRUE, isClean |-> TRUE, threats |-> <<>>,
             confidence |-> 10, quarantined |-> FALSE]
NoPrevious == [known |-> FALSE, reply |-> "none", result |-> NoResult]
\* by: the function called; files: the list handed to validateFiles (the
\* one file of the other two); digestOk: crypto.subtle.digest succeeds
NoValidation == [state |-> "none", by |-> "validateFile", files |-> <<>>,
                 cfg |-> DEFAULT_CONFIGS.GENERAL, digestOk |-> TRUE,
                 result |-> [threw |-> FALSE, isValid |-> FALSE, errors |-> <<>>,
                             warnings |-> <<>>]]
NoCall == [file |-> NoFile, requireScan |-> TRUE, error |-> ""]
NoOutcome == [kind |-> "none", status |-> "", error |-> ""]
\* CleanupResult as cleanupExpiredFiles initialises it
EmptyCleanupResult == [deletedCount |-> 0, freedSpace |-> 0, errors |-> <<>>]
\* state: "none", "deleting" (inside the loop), "returned"; listed: what
\* getExpiredFiles returned; replies: what deleteFile did for each file so far
NoCleanup == [state |-> "none", listingFailed |-> FALSE, listed |-> <<>>,
              replies |-> <<>>, result |-> EmptyCleanupResult]

Init ==
    /\ world \in {"scanner", "validator", "api", "audit", "cleanup"}
    /\ config \in (CASE world = "scanner" -> Configs
                     [] world = "api" -> ApiConfigs
                     [] OTHER -> {SECURITY_CONFIGS.BASIC})
    /\ hooks \in (IF world = "api" THEN SUBSET HookNames ELSE {{}})
    /\ lastIndex = InitialLastIndex
    /\ scanPc = "idle"
    /\ scan = NoScan
    /\ scanResult = NoResult
    /\ previous = NoPrevious
    /\ validation = NoValidation
    /\ pc = "idle"
    /\ call = NoCall
    /\ trace = <<>>
    /\ logged = <<>>
    /\ outcome = NoOutcome
    /\ cleanup = NoCleanup

apiVars == <<pc, call, trace, logged, outcome>>
scanVars == <<lastIndex, scanPc, scan, scanResult, previous, validation>>
\* what no call on a scanner, a validator, an API or an audit logger changes
fixedVars == <<world, config, hooks, cleanup>>

\* scanFile is called: the stages before the virus scan run, and the call
\* either waits for the endpoint or returns
BeginScan(file) ==
    LET st == ScanStages(file, config, lastIndex)
        waits == CallsEndpoint(config)
    IN  /\ scanPc = "idle"
        /\ lastIndex' = st.lastIndex
        /\ scanPc' = IF waits THEN "awaitVirus" ELSE "idle"
        /\ scan' = [state |-> IF waits THEN "pending" ELSE "returned",
                    by |-> "scanFile", file |-> file, pre |-> lastIndex, before |-> st.threats, reply |-> "none"]
        /\ scanResult' = IF waits THEN NoResult
                         ELSE scanFile(file, config, lastIndex, "none")

\* a scanFile call on a scanner used directly
ScanFile(file) ==
    /\ world = "scanner"
    /\ scan.state = "none"
    /\ validation.state = "none"
    /\ BeginScan(file)
    /\ previous' = NoPrevious
    /\ UNCHANGED <<fixedVars, apiVars, validation>>

\* scanFile is called again with the file of the call that just returned
ScanAgain ==
    /\ world = "scanner"
    /\ scan.state = "returned"
    /\ scan.by = "scanFile"
    /\ BeginScan(scan.file)
    /\ previous' = [known |-> TRUE, reply |-> scan.reply, result |-> scanResult]
    /\ UNCHANGED <<fixedVars, apiVars, validation>>

\* the caller is done with the result of scanFile
DropScanResult ==
    /\ world = "scanner"
    /\ scan.state = "returned"
    /\ scan' = NoScan
    /\ scanResult' = NoResult
    /\ previous' = NoPrevious
    /\ UNCHANGED <<fixedVars, apiVars, lastIndex, scanPc, validation>>

\* performSecurityScan(buffer, filename) of the backend utilities
PerformSecurityScan(file) ==
    /\ world = "scanner"
    /\ scan.state = "none"
    /\ validation.state = "none"
    /\ scan' = [NoScan EXCEPT !.state = "returned", !.by = "performSecurityScan",
                                !.file = file, !.pre = lastIndex]
    /\ scanResult' = performSecurityScan(file)
    /\ UNCHANGED <<fixedVars, apiVars, lastIndex, scanPc, previous, validation>>

\* the files of the lists handed to validateFiles, and the lists
BatchFiles ==
    { f \in Files :
        \/ f.isNull
        \/ f.name = <<"a", "txt">> /\ f.type = "text/plain" /\ f.content = <<"TXT">>
        \/ f.name = <<"setup", "exe">> /\ f.readable /\ f.content = <<"TXT">>
        \/ f.name = NoName /\ f.readable /\ f.content = <<"TXT">> }

Batches == SeqsUpTo(BatchFiles, MaxBatch)

\* the buffers handed to validateBuffer, with their filename and MIME type
Buffers == { f \in Files : f.readable \/ f.isNull }

Validated(by, files, cfg, digestOk, result) ==
    /\ validation.state = "none"
    /\ validation' = [state |-> "returned", by |-> by, files |-> files, cfg |-> cfg,
                      digestOk |-> digestOk, result |-> result]
    /\ UNCHANGED <<fixedVars, apiVars, lastIndex, scanPc, scan, scanResult, previous>>

\* a validateFile call on a FileValidator used directly
ValidateFile(file) ==
    /\ world = "validator"
    /\ \E cfg \in ValidatorConfigs, digestOk \in BOOLEAN :
         Validated("validateFile", <<file>>, cfg, digestOk, validateFile(file, cfg, digestOk))

\* a validateFiles call on a FileValidator used directly
ValidateFiles(files) ==
    /\ world = "validator"
    /\ \E cfg \in ValidatorConfigs, digestOk \in BOOLEAN :
         Validated("validateFiles", files, cfg, digestOk, validateFiles(files, cfg, digestOk))

\* a validateBuffer call on a BackendFileValidator
ValidateBuffer(file) ==
    /\ world = "validator"
    /\ \E cfg \in ValidatorConfigs, digestOk \in BOOLEAN :
         Validated("validateBuffer", <<file>>, cfg, digestOk, validateBuffer(file, cfg, digestOk))

\* the caller is done with the result of validateFile
DropValidation ==
    /\ validation.state = "returned"
    /\ validation' = NoValidation
    /\ UNCHANGED <<fixedVars, apiVars, lastIndex, scanPc, scan, scanResult, previous>>

\* the fetch of scanForViruses settles and scanFile returns
VirusReply(reply) ==
    /\ scanPc = "awaitVirus"
    /\ scanPc' = "idle"
    /\ scan' = [scan EXCEPT !.state = "returned", !.reply = reply]
    /\ scanResult' = scanFile(scan.file, config, scan.pre, reply)
    /\ pc' = IF pc = "scanning" THEN "afterScan" ELSE pc
    /\ UNCHANGED <<fixedVars, lastIndex, previous, validation, call, trace, logged,
                   outcome>>

\* an exception inside the try block of uploadFile: control goes to the catch
Throw(msg) ==
    /\ pc' = "onError"
    /\ call' = [call EXCEPT !.error = msg]

Step(stage, result, next) ==
    /\ trace' = Append(trace, Event(stage, result))
    /\ pc' = next
    /\ UNCHANGED call

UploadFile(file, requireScan) ==
    /\ world = "api"
    /\ pc = "idle"
    /\ pc' = "metadata"
    /\ call' = [file |-> file, requireScan |-> requireScan, error |-> ""]
    /\ trace' = <<>>
    /\ logged' = <<>>
    /\ outcome' = [NoOutcome EXCEPT !.kind = "pending"]
    /\ UNCHANGED <<fixedVars, scanVars>>

\* generateFileMetadata: getUser, then file.arrayBuffer() for the hash
GenerateFileMetadata(authenticated) ==
    /\ pc = "metadata"
    /\ IF ~authenticated
         THEN Throw("User not authenticated") /\ UNCHANGED trace
       ELSE IF call.file.isNull \/ ~call.file.readable
         THEN Throw("Cannot read file") /\ UNCHANGED trace
       ELSE Step("metadata", "ok", "beforeUpload")
    /\ UNCHANGED <<fixedVars, scanVars, logged, outcome>>

BeforeUpload(result) ==
    /\ pc = "beforeUpload"
    /\ IF "beforeUpload" \notin hooks
         THEN result = "true" /\ pc' = "validate" /\ UNCHANGED <<call, trace>>
       ELSE /\ trace' = Append(trace, Event("beforeUpload", result))
            /\ CASE result = "true" -> pc' = "validate" /\ UNCHANGED call
                 [] result = "false" -> Throw("Upload rejected by beforeUpload hook")
                 [] result = "threw" -> Throw("beforeUpload hook failed")
    /\ UNCHANGED <<fixedVars, scanVars, logged, outcome>>

Validate(sinkOk) ==
    /\ pc = "validate"
    /\ LET v == validateFile(call.file, DEFAULT_CONFIGS.GENERAL, TRUE)
       IN  IF v.threw
             THEN /\ trace' = Append(trace, Event("validate", "threw"))
                  /\ Throw("TypeError")
                  /\ UNCHANGED logged
           ELSE IF v.isValid
             THEN Step("validate", "valid", "afterValidation") /\ UNCHANGED logged
           ELSE /\ trace' = Append(trace, Event("validate", "invalid"))
                /\ logged' = Append(logged,
                     sanitizedEntry("file_upload_rejected", "", UserId,
                                    [errors |-> v.errors], sinkOk))
                /\ Throw("File validation failed")
    /\ UNCHANGED <<fixedVars, scanVars, outcome>>

AfterValidation(result) ==
    /\ pc = "afterValidation"
    /\ IF "afterValidation" \notin hooks
         THEN result = "ok" /\ pc' = "beforeScan" /\ UNCHANGED <<call, trace>>
       ELSE /\ trace' = Append(trace, Event("afterValidation", result))
            /\ CASE result = "ok" -> pc' = "beforeScan" /\ UNCHANGED call
                 [] result = "threw" -> Throw("afterValidation hook failed")
    /\ UNCHANGED <<fixedVars, scanVars, logged, outcome>>

\* the scan is only reached inside `if (this.hooks.beforeScan)`
BeforeScan(result) ==
    /\ pc = "beforeScan"
    /\ IF ~call.requireScan \/ "beforeScan" \notin hooks
         THEN result = "true" /\ pc' = "beforeStore" /\ UNCHANGED <<call, trace>>
       ELSE /\ trace' = Append(trace, Event("beforeScan", result))
            /\ CASE result = "true" -> pc' = "scan" /\ UNCHANGED call
                 [] result = "false" -> pc' = "beforeStore" /\ UNCHANGED call
                 [] result = "threw" -> Throw("beforeScan hook failed")
    /\ UNCHANGED <<fixedVars, scanVars, logged, outcome>>

Scan ==
    /\ pc = "scan"
    /\ BeginScan(call.file)
    /\ trace' = Append(trace, Event("scan", "called"))
    /\ pc' = IF CallsEndpoint(config) THEN "scanning" ELSE "afterScan"
    /\ UNCHANGED <<fixedVars, previous, validation, call, logged, outcome>>

\* AfterScan without the check of scanResult.isClean
AfterScanWithoutCheck(result, sinkOk) ==
    /\ pc = "afterScan"
    /\ IF "afterScan" \in hooks /\ result = "threw"
         THEN /\ trace' = Append(trace, Event("afterScan", "threw"))
              /\ pc' = "onError"
              /\ call' = [call EXCEPT !.error = "afterScan hook failed"]
       ELSE /\ result = "ok"
            /\ trace' = IF "afterScan" \in hooks
                          THEN Append(trace, Event("afterScan", "ok")) ELSE trace
            /\ pc' = "beforeStore"
            /\ UNCHANGED call
    /\ UNCHANGED <<world, config, hooks, cleanup, lastIndex, scanPc, scan, scanResult,
                   previous, validation, logged, outcome>>

\* the afterScan hook, then the check of scanResult.isClean
AfterScan(result, sinkOk) ==
    /\ pc = "afterScan"
    /\ IF "afterScan" \in hooks /\ result = "threw"
         THEN /\ trace' = Append(trace, Event("afterScan", "threw"))
              /\ Throw("afterScan hook failed")
              /\ UNCHANGED logged
       ELSE /\ result = "ok"
            /\ LET seen == IF "afterScan" \in hooks
                             THEN Append(trace, Event("afterScan", "ok")) ELSE trace
               IN  IF ~scanResult.isClean
                     THEN /\ trace' = seen
                          /\ logged' = Append(logged,
                               sanitizedEntry("security_threat_detected", "", UserId,
                                 [threats |-> scanResult.threats,
                                  confidence |-> scanResult.confidence], sinkOk))
                          /\ Throw("Security scan failed: File contains threats")
                   ELSE /\ trace' = seen
                        /\ pc' = "beforeStore"
                        /\ UNCHANGED <<call, logged>>
    /\ UNCHANGED <<fixedVars, scanVars, outcome>>

BeforeStore(result) ==
    /\ pc = "beforeStore"
    /\ IF "beforeStore" \notin hooks
         THEN result = "ok" /\ pc' = "store" /\ UNCHANGED <<call, trace>>
       ELSE /\ trace' = Append(trace, Event("beforeStore", result))
            /\ CASE result = "ok" -> pc' = "store" /\ UNCHANGED call
                 [] result = "threw" -> Throw("beforeStore hook failed")
    /\ UNCHANGED <<fixedVars, scanVars, logged, outcome>>

\* storageBackend.upload with its failure ignored: the pipeline goes on
StoreIgnoringFailure(ok) ==
    /\ pc = "store"
    /\ Step("store", IF ok THEN "ok" ELSE "failed", "record")
    /\ UNCHANGED <<fixedVars, scanVars, logged, outcome>>

\* storageBackend.upload
Store(ok) ==
    /\ pc = "store"
    /\ IF ok THEN Step("store", "ok", "record")
       ELSE /\ trace' = Append(trace, Event("store", "failed"))
            /\ Throw("Upload failed")
    /\ UNCHANGED <<fixedVars, scanVars, logged, outcome>>

\* createFileRecord inserts the record with status "scanning"
CreateFileRecord(ok) ==
    /\ pc = "record"
    /\ IF ok THEN Step("record", "scanning", "afterStore")
       ELSE /\ trace' = Append(trace, Event("record", "failed"))
            /\ Throw("Failed to create file record")
    /\ UNCHANGED <<fixedVars, scanVars, logged, outcome>>

\* the status column of the record in file_uploads: createFileRecord inserts
\* it as "scanning" and nothing in uploadFile updates it
RecordStatus(tr) == IF Has(tr, "record", "scanning") THEN "scanning" ELSE "none"

\* uploadResult.status; the local scanResult is null unless scanFile ran
UploadStatus ==
    IF "scan" \in Stages(trace)
      THEN (IF scanResult.isClean THEN "approved" ELSE "rejected")
    ELSE "pending"

AfterStore(result) ==
    /\ pc = "afterStore"
    /\ IF "afterStore" \notin hooks
         THEN result = "ok" /\ pc' = "auditSuccess" /\ UNCHANGED <<call, trace>>
       ELSE /\ trace' = Append(trace, Event("afterStore", result))
            /\ CASE result = "ok" -> pc' = "auditSuccess" /\ UNCHANGED call
                 [] result = "threw" -> Throw("afterStore hook failed")
    /\ UNCHANGED <<fixedVars, scanVars, logged, outcome>>

\* the file_upload_success entry, then return uploadResult
AuditSuccess(sinkOk) ==
    /\ pc = "auditSuccess"
    /\ logged' = Append(logged,
         sanitizedEntry("file_upload_success", "record-1", UserId,
                        [securityScanPassed |->
                           IF "scan" \in Stages(trace) THEN scanResult.isClean ELSE TRUE],
                        sinkOk))
    /\ outcome' = [kind |-> "returned", status |-> UploadStatus, error |-> ""]
    /\ pc' = "done"
    /\ UNCHANGED <<fixedVars, scanVars, call, trace>>

\* the catch block: the onError hook
OnError(result) ==
    /\ pc = "onError"
    /\ IF "onError" \notin hooks
         THEN result = "ok" /\ pc' = "auditError" /\ UNCHANGED <<trace, outcome>>
       ELSE /\ trace' = Append(trace, Event("onError", result))
            /\ CASE result = "ok" -> pc' = "auditError" /\ UNCHANGED outcome
                 [] result = "threw" ->
                      /\ pc' = "done"
                      /\ outcome' = [kind |-> "threw", status |-> "",
                                     error |-> "onError hook failed"]
    /\ UNCHANGED <<fixedVars, scanVars, call, logged>>

\* the catch block: the file_upload_error entry (building it reads
\* file.name), then `throw error`
AuditError(sinkOk) ==
    /\ pc = "auditError"
    /\ IF call.file.isNull
         THEN /\ sinkOk
              /\ outcome' = [kind |-> "threw", status |-> "",
                             error |-> "TypeError: file is null"]
              /\ UNCHANGED logged
       ELSE /\ logged' = Append(logged,
                 sanitizedEntry("file_upload_error", "",
                                IF "metadata" \in Stages(trace) THEN UserId
                                ELSE "unknown",
                                [error |-> call.error], sinkOk))
            /\ outcome' = [kind |-> "threw", status |-> "", error |-> call.error]
    /\ pc' = "done"
    /\ UNCHANGED <<fixedVars, scanVars, call, trace>>

\* the caller is done with the outcome of uploadFile
DropUploadResult ==
    /\ pc = "done"
    /\ pc' = "idle"
    /\ call' = NoCall
    /\ trace' = <<>>
    /\ logged' = <<>>
    /\ outcome' = NoOutcome
    /\ scan' = NoScan
    /\ scanResult' = NoResult
    /\ UNCHANGED <<fixedVars, lastIndex, scanPc, previous, validation>>

\* the identifiers of the entries handed to an AuditLogger used directly
Identifiers == {Undefined, "", "record-1", UserId}

\* auditLogger.log(entry) on an AuditLogger used directly
AuditLog(resourceId) ==
    /\ world = "audit"
    /\ logged = <<>>
    /\ \E userId \in Identifiers, sinkOk \in BOOLEAN :
         logged' = <<sanitizedEntry("file_download", resourceId, userId,
                                    [filename |-> "a.txt"], sinkOk)>>
    /\ UNCHANGED <<fixedVars, scanVars, pc, call, trace, outcome>>

\* the caller is done with the call of log
DropAuditLog ==
    /\ world = "audit"
    /\ logged # <<>>
    /\ logged' = <<>>
    /\ UNCHANGED <<fixedVars, scanVars, pc, call, trace, outcome>>

\* the records that getExpiredFiles can list
ExpiredFiles ==
    { [id |-> "1", filePath |-> "user-1/a.txt", fileSize |-> 1],
      [id |-> "2", filePath |-> "user-1/b.txt", fileSize |-> 2],
      [id |-> "3", filePath |-> "user-2/c.txt", fileSize |-> 4] }

\* what getExpiredFiles does: it rejects, or it resolves to a list
Listings ==
    {[rejected |-> TRUE, files |-> <<>>]}
    \cup { [rejected |-> FALSE, files |-> files] :
             files \in UNION { [1..n -> ExpiredFiles] : n \in 0..MaxListed } }

\* what deleteFile does: it resolves to true or to false, or it rejects
DeleteReplies == {"true", "false", "rejected"}

\* a deletion that counts the file whatever deleteFile resolved to
AfterDeleteIgnoringAnswer(result, file, reply) ==
    IF reply = "rejected"
      THEN [result EXCEPT !.errors = Append(@, "Error deleting file " \o file.filePath
                                                \o ": Error: delete failed")]
    ELSE [result EXCEPT !.deletedCount = @ + 1, !.freedSpace = @ + file.fileSize]

\* the body of the loop of cleanupExpiredFiles for one file
AfterDelete(result, file, reply) ==
    CASE reply = "true" ->
           [result EXCEPT !.deletedCount = @ + 1, !.freedSpace = @ + file.fileSize]
      [] reply = "false" ->
           [result EXCEPT !.errors = Append(@, "Failed to delete file: " \o file.filePath)]
      [] reply = "rejected" ->
           [result EXCEPT !.errors = Append(@, "Error deleting file " \o file.filePath
                                               \o ": Error: delete failed")]

\* cleanupExpiredFiles is called and getExpiredFiles settles: a rejection is
\* caught and reported, an empty list lets the call return at once
CleanupExpiredFiles(listing) ==
    /\ world = "cleanup"
    /\ cleanup.state = "none"
    /\ cleanup' =
         IF listing.rejected
           THEN [state |-> "returned", listingFailed |-> TRUE, listed |-> <<>>,
                 replies |-> <<>>,
                 result |-> [EmptyCleanupResult EXCEPT !.errors =
                               <<"Error fetching expired files: Error: query failed">>]]
         ELSE [state |-> IF listing.files = <<>> THEN "returned" ELSE "deleting",
               listingFailed |-> FALSE, listed |-> listing.files, replies |-> <<>>,
               result |-> EmptyCleanupResult]
    /\ UNCHANGED <<world, config, hooks, scanVars, apiVars>>

\* deleteFile settles for the next file of the list; after the last file the
\* call returns
DeleteFile(reply) ==
    /\ world = "cleanup"
    /\ cleanup.state = "deleting"
    /\ LET index == Len(cleanup.replies) + 1
       IN  cleanup' = [cleanup EXCEPT
                         !.replies = Append(@, reply),
                         !.result = AfterDelete(@, cleanup.listed[index], reply),
                         !.state = IF index = Len(cleanup.listed) THEN "returned"
                                   ELSE "deleting"]
    /\ UNCHANGED <<world, config, hooks, scanVars, apiVars>>

\* the caller is done with the CleanupResult
DropCleanupResult ==
    /\ world = "cleanup"
    /\ cleanup.state = "returned"
    /\ cleanup' = NoCleanup
    /\ UNCHANGED <<world, config, hooks, scanVars, apiVars>>

\* what a hook that answers does, and what a hook that observes does
Answers == {"true", "false", "threw"}
Observes == {"ok", "threw"}

Next ==
    \/ \E file \in Files : ScanFile(file)
    \/ ScanAgain
    \/ DropScanResult
    \/ \E file \in Files : PerformSecurityScan(file)
    \/ \E file \in Files : ValidateFile(file)
    \/ \E files \in Batches : ValidateFiles(files)
    \/ \E file \in Buffers : ValidateBuffer(file)
    \/ DropValidation
    \/ \E reply \in VirusReplies : VirusReply(reply)
    \/ \E file \in UploadFiles, requireScan \in BOOLEAN : UploadFile(file, requireScan)
    \/ \E authenticated \in BOOLEAN : GenerateFileMetadata(authenticated)
    \/ \E result \in Answers : BeforeUpload(result)
    \/ \E sinkOk \in BOOLEAN : Validate(sinkOk)
    \/ \E result \in Observes : AfterValidation(result)
    \/ \E result \in Answers : BeforeScan(result)
    \/ Scan
    \/ \E result \in Observes, sinkOk \in BOOLEAN : AfterScan(result, sinkOk)
    \/ \E result \in Observes : BeforeStore(result)
    \/ \E ok \in BOOLEAN : Store(ok)
    \/ \E ok \in BOOLEAN : CreateFileRecord(ok)
    \/ \E result \in Observes : AfterStore(result)
    \/ \E sinkOk \in BOOLEAN : AuditSuccess(sinkOk)
    \/ \E result \in Observes : OnError(result)
    \/ \E sinkOk \in BOOLEAN : AuditError(sinkOk)
    \/ DropUploadResult
    \/ \E resourceId \in Identifiers : AuditLog(resourceId)
    \/ DropAuditLog
    \/ \E listing \in Listings : CleanupExpiredFiles(listing)
    \/ \E reply \in DeleteReplies : DeleteFile(reply)
    \/ DropCleanupResult

Spec == Init /\ [][Next]_vars

\* The event loop runs every continuation that is ready, and the hooks, the
\* storage backend and the audit store answer; nothing obliges the virus-scan
\* endpoint to answer.
Progress ==
    \/ \E file \in Files : ScanFile(file)
    \/ ScanAgain
    \/ DropScanResult
    \/ \E file \in Files : PerformSecurityScan(file)
    \/ \E file \in Files : ValidateFile(file)
    \/ \E files \in Batches : ValidateFiles(files)
    \/ \E file \in Buffers : ValidateBuffer(file)
    \/ DropValidation
    \/ \E file \in UploadFiles, requireScan \in BOOLEAN : UploadFile(file, requireScan)
    \/ \E authenticated \in BOOLEAN : GenerateFileMetadata(authenticated)
    \/ \E result \in Answers : BeforeUpload(result)
    \/ \E sinkOk \in BOOLEAN : Validate(sinkOk)
    \/ \E result \in Observes : AfterValidation(result)
    \/ \E result \in Answers : BeforeScan(result)
    \/ Scan
    \/ \E result \in Observes, sinkOk \in BOOLEAN : AfterScan(result, sinkOk)
    \/ \E result \in Observes : BeforeStore(result)
    \/ \E ok \in BOOLEAN : Store(ok)
    \/ \E ok \in BOOLEAN : CreateFileRecord(ok)
    \/ \E result \in Observes : AfterStore(result)
    \/ \E sinkOk \in BOOLEAN : AuditSuccess(sinkOk)
    \/ \E result \in Observes : OnError(result)
    \/ \E sinkOk \in BOOLEAN : AuditError(sinkOk)
    \/ DropUploadResult
    \/ \E resourceId \in Identifiers : AuditLog(resourceId)
    \/ DropAuditLog
    \/ \E listing \in Listings : CleanupExpiredFiles(listing)
    \/ \E reply \in DeleteReplies : DeleteFile(reply)
    \/ DropCleanupResult

LiveSpec == Spec /\ WF_vars(Progress)

(***************************************************************************)
(* Properties                                                              *)
(***************************************************************************)
ThreatSet(result) == { result.threats[i] : i \in 1..Len(result.threats) }
Severe(result) == HasSeverity(result.threats, "high") \/ HasSeverity(result.threats, "critical")

\* C1: whenever options.requireScan is true and scanning is not vetoed (no
\* beforeScan hook is registered, or the registered hook returned true),
\* scanFile is invoked before storageBackend.upload is called.
C1_ScanPrecedesStore ==
    \A j \in 1..Len(trace) :
        ( /\ trace[j].stage = "store"
          /\ call.requireScan
          /\ ("beforeScan" \notin hooks \/ Has(trace, "beforeScan", "true")) )
        => \E i \in 1..(j - 1) : trace[i].stage = "scan"

\* C2: the stages of uploadFile run in the order validate, scan, store: the
\* scanner is invoked only after the validator returned isValid = true;
\* storage and createFileRecord only after that and, if a scan was run, only
\* after it returned isClean = true; a file whose validation fails reaches
\* neither the scanner nor storage.
C2_ValidateScanStore ==
    /\ \A j \in 1..Len(trace) :
         trace[j].stage \in {"scan", "store", "record"}
         => /\ \E i \in 1..(j - 1) : trace[i] = Event("validate", "valid")
            /\ validateFile(call.file, DEFAULT_CONFIGS.GENERAL, TRUE).isValid
    /\ \A j \in 1..Len(trace) :
         trace[j].stage \in {"store", "record"}
         => \A i \in 1..Len(trace) :
              trace[i].stage = "scan"
              => i < j /\ scan.state = "returned" /\ scanResult.isClean
    /\ Has(trace, "validate", "invalid")
         => Stages(trace) \cap {"scan", "store", "record"} = {}

\* C2 witness: an upload that was validated, scanned and stored has returned
C2_Witness ==
    /\ outcome.kind = "returned"
    /\ Has(trace, "validate", "valid")
    /\ Has(trace, "scan", "called")
    /\ Has(trace, "store", "ok")

\* C3: whenever the scanner is run inside uploadFile and returns
\* isClean = false, a security_threat_detected audit entry carrying the
\* threats and the confidence is logged, the call ends as a rejection
\* reported to the caller, and it produces no storage upload, no upload
\* record and no file_upload_success entry.
C3_ThreatRejected ==
    (pc = "done" /\ "scan" \in Stages(trace) /\ ~scanResult.isClean)
    => /\ \E i \in 1..Len(logged) :
            /\ logged[i].action = "security_threat_detected"
            /\ logged[i].details = [threats |-> scanResult.threats,
                                    confidence |-> scanResult.confidence]
       /\ outcome.kind = "threw"
       /\ Stages(trace) \cap {"store", "record"} = {}
       /\ "file_upload_success" \notin Actions(logged)

\* C4: every result returned by scanFile or performSecurityScan has
\* isClean = (no threat of severity high or critical) and, where
\* quarantined is set, quarantined = ~isClean.
C4_CleanIffNoSevereThreat ==
    (scan.state = "returned" /\ ~scanResult.threw)
    => /\ scanResult.isClean = ~Severe(scanResult)
       /\ scanResult.full => scanResult.quarantined = ~scanResult.isClean

\* C5: when a detector stage of scanFile fails to read or decode the file,
\* the result has isClean = false and confidence = 0 and holds a
\* suspicious_content threat for the failure.
C5_DetectorFailureIsNotClean ==
    (scan.state = "returned" /\ scan.by = "scanFile" /\ ~scan.file.readable)
    => /\ ~scanResult.isClean
       /\ scanResult.confidence = 0
       /\ \E i \in 1..Len(scanResult.threats) :
            scanResult.threats[i].type = "suspicious_content"

\* C6: two scanFile calls in succession on the same scanner with the same
\* file and configuration (and the same answer of the endpoint) return the
\* same set of threats and the same isClean.
C6_ScanIdempotent ==
    ( /\ previous.known
      /\ scan.state = "returned"
      /\ previous.reply = scan.reply )
    => /\ ThreatSet(scanResult) = ThreatSet(previous.result)
       /\ scanResult.isClean = previous.result.isClean

\* C7: scans leave the signature catalog unchanged, the lastIndex of its
\* regular expressions included, so what scanFile returns for a file is what
\* a scanner that has scanned nothing before returns for it.
C7_CatalogUnchanged ==
    /\ lastIndex = InitialLastIndex
    /\ (scan.state = "returned" /\ scan.by = "scanFile")
       => LET fresh == scanFile(scan.file, config, InitialLastIndex, scan.reply)
          IN  /\ ThreatSet(scanResult) = ThreatSet(fresh)
              /\ scanResult.isClean = fresh.isClean

\* C8: validateFile and scanFile never throw, whatever the input (a missing
\* file, a missing name, unreadable content, suspicious content): they
\* return a result with isValid, errors, warnings, respectively isClean,
\* threats, confidence, quarantined set.
C8_NeverThrow ==
    /\ (validation.state = "returned" /\ validation.by = "validateFile")
       => /\ ~validation.result.threw
          /\ validation.result.isValid \in BOOLEAN
          /\ Len(validation.result.errors) >= 0
          /\ Len(validation.result.warnings) >= 0
    /\ (scan.state = "returned" /\ scan.by = "scanFile")
       => /\ ~scanResult.threw
          /\ scanResult.full
          /\ scanResult.isClean \in BOOLEAN
          /\ Len(scanResult.threats) >= 0
          /\ scanResult.confidence \in 0..10
          /\ scanResult.quarantined \in BOOLEAN

\* C8, amended: validateFile never throws for a missing file, a missing or
\* empty name, unreadable or suspicious content, nor for any other file that
\* has a type; scanFile never throws for any input.  What they return has
\* all its fields set.
C8_NeverThrowOnFiles ==
    /\ ( /\ validation.state = "returned"
         /\ validation.by = "validateFile"
         /\ validation.files[1].type # NoType )
       => /\ ~validation.result.threw
          /\ validation.result.isValid \in BOOLEAN
          /\ Len(validation.result.errors) >= 0
          /\ Len(validation.result.warnings) >= 0
    /\ (scan.state = "returned" /\ scan.by = "scanFile")
       => /\ ~scanResult.threw
          /\ scanResult.full
          /\ scanResult.isClean \in BOOLEAN
          /\ Len(scanResult.threats) >= 0
          /\ scanResult.confidence \in 0..10
          /\ scanResult.quarantined \in BOOLEAN

\* C8 witness: scanFile has returned the Scan Error result for a file that
\* has no name
C8_Witness ==
    /\ scan.state = "returned"
    /\ scan.by = "scanFile"
    /\ ~scan.file.isNull
    /\ scan.file.name = NoName
    /\ scanResult = ScanErrorResult

\* C9: with virus scanning enabled and the request to the endpoint failed
\* (transport error, non-OK response, unparsable reply), scanFile returns,
\* adds no threat for the failure, and its threats and isClean are those of
\* the same scan with virus scanning disabled.
C9_VirusFailureSwallowed ==
    ( /\ scan.state = "returned"
      /\ scan.by = "scanFile"
      /\ config.enableVirusScanning
      /\ scan.reply \in VirusFailures )
    => LET off == scanFile(scan.file, [config EXCEPT !.enableVirusScanning = FALSE],
                           scan.pre, "none")
       IN  /\ ~scanResult.threw
           /\ scanResult.threats = off.threats
           /\ scanResult.isClean = off.isClean

\* C9 witness: a scan that found threats has returned after the endpoint failed
C9_Witness ==
    /\ scan.state = "returned"
    /\ scan.by = "scanFile"
    /\ config.enableVirusScanning
    /\ scan.reply \in VirusFailures
    /\ Len(scanResult.threats) > 0

\* C10: scanFile eventually returns even if the virus-scan endpoint never
\* answers: a scanFile call that waits for the endpoint returns.
C10_ScanReturns == (scan.state = "pending") ~> (scan.state = "returned")

\* C11: for validateFile, validateFiles and validateBuffer, the result is
\* valid exactly when its error list is empty; warnings never make a result
\* invalid.
C11_ValidIffNoErrors ==
    (validation.state = "returned" /\ ~validation.result.threw)
    => validation.result.isValid = (Len(validation.result.errors) = 0)

\* C11 witness: a call has returned a valid result that carries a warning
C11_Witness ==
    /\ validation.state = "returned"
    /\ ~validation.result.threw
    /\ validation.result.isValid
    /\ Len(validation.result.warnings) > 0

\* the text is one of the errors of the result
HasError(result, text) == \E i \in 1..Len(result.errors) : result.errors[i] = text

SignatureMismatch == "File signature does not match expected type"

\* C12: validateFile evaluates every check on every call: the error list
\* holds the error of each failing check (presence, size, MIME allow-list,
\* extension allow-list, magic bytes), whether or not an earlier check has
\* already failed.  The extension is only asked of a file that has a name.
C12_EveryCheckReported ==
    ( /\ validation.state = "returned"
      /\ validation.by = "validateFile"
      /\ ~validation.result.threw )
    => LET file == validation.files[1]
           cfg == validation.cfg
           named == file.name \notin {NoName, <<"">>}
           failing ==
               IF file.isNull THEN {"File is required"}
               ELSE {SizeError(file, cfg), MimeError(file, cfg), validateMagicBytes(file)}
                    \cup (IF named THEN {ExtensionError(file, cfg)}
                          ELSE {"File name is required"})
       IN  \A text \in failing \ {""} : HasError(validation.result, text)

\* C13: for a declared type with a signature-table entry, validateFile and
\* validateBuffer report the signature error exactly when the leading bytes
\* match none of the type's signatures, whatever the file's name; for a
\* declared type without an entry they never report it.  Stated of files
\* whose bytes can be read.
C13_SignatureErrorIffMismatch ==
    ( /\ validation.state = "returned"
      /\ validation.by \in {"validateFile", "validateBuffer"}
      /\ ~validation.result.threw
      /\ ~validation.files[1].isNull
      /\ validation.files[1].readable )
    => LET file == validation.files[1]
           signatures == MagicSignatures(file.type)
           matches == \E sig \in signatures : EveryByte(FileBytes(file.content), sig)
       IN  HasError(validation.result, SignatureMismatch)
             <=> (signatures # {} /\ ~matches)

\* a readable file named photo.jpg, declared image/jpeg, whose bytes start
\* with 4D 5A
IsExecutableAsPhoto(file) ==
    /\ ~file.isNull
    /\ file.readable
    /\ file.name = <<"photo", "jpg">>
    /\ file.type = "image/jpeg"
    /\ Len(FileBytes(file.content)) >= 2
    /\ SubSeq(FileBytes(file.content), 1, 2) = <<77, 90>>

\* the scanner's result holds the critical "Windows PE Executable" threat
ReportsExecutable(result) ==
    /\ \E i \in 1..Len(result.threats) :
         /\ result.threats[i].name = "Windows PE Executable"
         /\ result.threats[i].severity = "critical"
    /\ ~result.isClean

\* C14 as stated: a file whose bytes start with 4D 5A, named photo.jpg and
\* declared image/jpeg, passes validation (valid, no signature error); the
\* scanner reports a critical "Windows PE Executable" threat and isClean
\* false; an upload of the file is rejected at the scan stage.
C14_PassesValidationRejectedAtScan ==
    /\ ( /\ validation.state = "returned"
         /\ validation.by = "validateFile"
         /\ validation.cfg = DEFAULT_CONFIGS.GENERAL
         /\ IsExecutableAsPhoto(validation.files[1]) )
       => /\ validation.result.isValid
          /\ ~HasError(validation.result, SignatureMismatch)
    /\ (scan.state = "returned" /\ scan.by = "scanFile" /\ IsExecutableAsPhoto(scan.file))
       => ReportsExecutable(scanResult)
    /\ (pc = "done" /\ IsExecutableAsPhoto(call.file) /\ "validate" \in Stages(trace))
       => /\ Has(trace, "scan", "called")
          /\ "security_threat_detected" \in Actions(logged)

\* C14, amended: the file fails validation with the signature error, so an
\* upload of it that reaches validation is rejected there and is never
\* scanned or stored; the scanner, given the file directly, reports a
\* critical "Windows PE Executable" threat and isClean false.
C14_RejectedAtValidation ==
    /\ ( /\ validation.state = "returned"
         /\ validation.by = "validateFile"
         /\ IsExecutableAsPhoto(validation.files[1]) )
       => /\ ~validation.result.threw
          /\ ~validation.result.isValid
          /\ HasError(validation.result, SignatureMismatch)
    /\ (scan.state = "returned" /\ scan.by = "scanFile" /\ IsExecutableAsPhoto(scan.file))
       => ReportsExecutable(scanResult)
    /\ IsExecutableAsPhoto(call.file)
       => /\ "validate" \in Stages(trace) => Has(trace, "validate", "invalid")
          /\ Stages(trace) \cap {"scan", "store", "record"} = {}
          /\ outcome.kind # "returned"

\* C14 witness: an upload of the file has ended after its validation failed
C14_Witness ==
    /\ pc = "done"
    /\ IsExecutableAsPhoto(call.file)
    /\ Has(trace, "validate", "invalid")
    /\ outcome.kind = "threw"

\* the errors of validateFile for the files from index i on, in file order,
\* each behind "File i (name): " with the name that names[i] gives
RECURSIVE PerFileErrors(_, _, _, _, _)
PerFileErrors(files, cfg, digestOk, names, i) ==
    IF i > Len(files) THEN <<>>
    ELSE LET errors == validateFile(files[i], cfg, digestOk).errors
         IN  [k \in 1..Len(errors) |->
                "File " \o ToString(i) \o " (" \o names[i] \o "): " \o errors[k]]
             \o PerFileErrors(files, cfg, digestOk, names, i + 1)

\* C15 as stated: the errors of validateFiles are exactly the errors of
\* validateFile for each file, in file order, each labelled with the file's
\* 1-based index and name; none is added, none dropped.
C15_BatchErrorsArePerFileErrors ==
    ( /\ validation.state = "returned"
      /\ validation.by = "validateFiles"
      /\ ~validation.result.threw )
    => validation.result.errors
         = PerFileErrors(validation.files, validation.cfg, validation.digestOk,
                         [i \in 1..Len(validation.files) |->
                            NameText(validation.files[i].name)], 1)

\* C15, amended: after the "Too many files" error that validateFiles adds
\* when the list is longer than maxFiles, its errors are exactly the errors
\* of validateFile for each file, in file order, each labelled with the
\* file's 1-based index and its name, or "unknown" for a missing file or a
\* missing or empty name.
C15_BatchErrorsAfterTooManyFiles ==
    ( /\ validation.state = "returned"
      /\ validation.by = "validateFiles"
      /\ ~validation.result.threw )
    => LET files == validation.files
           errors == validation.result.errors
           tooMany == Len(files) > validation.cfg.maxFiles
           names == [i \in 1..Len(files) |->
                       IF files[i].isNull \/ files[i].name \in {NoName, <<"">>}
                         THEN "unknown" ELSE NameText(files[i].name)]
           perFile == PerFileErrors(files, validation.cfg, validation.digestOk, names, 1)
       IN  IF tooMany
             THEN /\ Len(errors) = 1 + Len(perFile)
                  /\ Head(errors) = "Too many files. Maximum allowed: "
                                      \o ToString(validation.cfg.maxFiles)
                                      \o ", provided: " \o ToString(Len(files))
                  /\ Tail(errors) = perFile
           ELSE errors = perFile

\* C15 witness: validateFiles has returned for a list longer than maxFiles
\* whose second file has an error
C15_Witness ==
    /\ validation.state = "returned"
    /\ validation.by = "validateFiles"
    /\ ~validation.result.threw
    /\ Len(validation.files) > validation.cfg.maxFiles
    /\ Len(validateFile(validation.files[2], validation.cfg,
                        validation.digestOk).errors) > 0
    /\ Len(validation.result.errors) >= 3

\* the part of a declared type before its "/"
TopLevelType(type) ==
    CASE type \in {"image/jpeg", "image/png", "image/gif"} -> "image"
      [] type = "imagex/png" -> "imagex"
      [] type \in {"text/plain", "text/html"} -> "text"
      [] type \in {"application/pdf", "application/x-msdownload"} -> "application"
      [] OTHER -> ""

\* C16: with a non-empty allowedMimeTypes, the MIME check of validateFile
\* and validateBuffer accepts a declared type exactly when it equals an
\* entry or an entry is T/* and the type's top-level type is T; every other
\* declared type gets the "not allowed" error.  Stated of the calls that
\* reach the MIME check.
C16_MimeAcceptedIffListed ==
    ( /\ validation.state = "returned"
      /\ validation.by \in {"validateFile", "validateBuffer"}
      /\ ~validation.result.threw
      /\ ~validation.files[1].isNull
      /\ validation.files[1].name \notin {NoName, <<"">>}
      /\ Len(validation.cfg.allowedMimeTypes) > 0 )
    => LET type == validation.files[1].type
           allowed == validation.cfg.allowedMimeTypes
           listed == \E i \in 1..Len(allowed) :
                       \/ allowed[i] = type
                       \/ /\ IsWildcard(allowed[i])
                          /\ TopLevelType(type) = WildcardPrefix(allowed[i])
       IN  HasError(validation.result, "File type is not allowed") <=> ~listed

\* C17: every uploadFile invocation that returns ends Approved: the status
\* returned is "approved" and the persisted record has left "scanning" and
\* is marked approved.
C17_ReturnedIsApproved ==
    (pc = "done" /\ outcome.kind = "returned")
    => /\ outcome.status = "approved"
       /\ RecordStatus(trace) = "approved"

\* C18: for every exception raised inside uploadFile, the registered onError
\* hook is invoked, a file_upload_error audit entry carrying the caught
\* message is appended, and that same exception is re-thrown to the caller.
C18_ErrorAuditedAndRethrown ==
    (pc = "done" /\ outcome.kind = "threw")
    => /\ "onError" \in hooks => "onError" \in Stages(trace)
       /\ \E i \in 1..Len(logged) :
            /\ logged[i].action = "file_upload_error"
            /\ logged[i].details.error = call.error
       /\ outcome.error = call.error

\* C19: an upload is never reported as successful when one of its audit
\* appends failed: when uploadFile returns, the audit store took every entry
\* of the invocation.
C19_AuditFailureIsFatal ==
    (pc = "done" /\ outcome.kind = "returned")
    => \A i \in 1..Len(logged) : logged[i].persisted

\* C20: when storageBackend.upload fails, no record is created, no
\* file_upload_success entry is appended and uploadFile does not return a
\* result.
C20_StoreFailureLeavesNothing ==
    Has(trace, "store", "failed")
    => /\ "record" \notin Stages(trace)
       /\ "file_upload_success" \notin Actions(logged)
       /\ outcome.kind # "returned"

\* C20 witness: an upload has ended after storageBackend.upload failed
C20_Witness ==
    /\ pc = "done"
    /\ Has(trace, "store", "failed")
    /\ outcome.kind = "threw"

\* the actions of the audit entries that uploadFile writes for other reasons
OtherAuditActions ==
    {"file_upload_rejected", "security_threat_detected", "file_upload_success",
     "file_upload_error"}

\* C21: when a registered beforeScan hook returns false for an upload that
\* requires scanning, the file goes to storage unscanned and, by the time the
\* upload has returned, an audit entry records that the scan was skipped on
\* the hook's authority.
C21_VetoIsAudited ==
    ( /\ pc = "done"
      /\ outcome.kind = "returned"
      /\ call.requireScan
      /\ Has(trace, "beforeScan", "false") )
    => /\ "scan" \notin Stages(trace)
       /\ "store" \in Stages(trace)
       /\ \E i \in 1..Len(logged) : logged[i].action \notin OtherAuditActions

\* C22: AuditLogger.log never hands an empty string to the audit store as
\* resource_id or user_id: an empty or missing identifier is replaced by
\* null, a non-empty one is passed through unchanged.
C22_EmptyIdentifierIsNull ==
    \A i \in 1..Len(logged) :
        /\ logged[i].resource_id # ""
        /\ logged[i].user_id # ""
        /\ logged[i].resource_id =
             (IF logged[i].given.resourceId \in {Undefined, ""} THEN Null
              ELSE logged[i].given.resourceId)
        /\ logged[i].user_id =
             (IF logged[i].given.userId \in {Undefined, ""} THEN Null
              ELSE logged[i].given.userId)

\* C22 witness: log was called with an empty resourceId and no userId
C22_Witness ==
    /\ Len(logged) = 1
    /\ logged[1].given.resourceId = ""
    /\ logged[1].given.userId = Undefined
    /\ logged[1].resource_id = Null

\* max(0, 1 - 0.1 x n), in tenths
ExpectedConfidence(n) == IF 10 - n > 0 THEN 10 - n ELSE 0

\* the result is the one that the catch block of scanFile returns
IsScanError(result) ==
    Len(result.threats) = 1 /\ result.threats[1].name = "Scan Error"

\* C23 as stated: in every result returned by scanFile, confidence equals
\* max(0, 1 - 0.1 x number of threats in the result).
C23_ConfidenceFromThreatCount ==
    (scan.state = "returned" /\ scan.by = "scanFile" /\ ~scanResult.threw)
    => scanResult.confidence = ExpectedConfidence(Len(scanResult.threats))

\* C23, amended: in every result returned by scanFile other than the Scan
\* Error result of its catch block, confidence equals max(0, 1 - 0.1 x number
\* of threats in the result); the Scan Error result has one threat and
\* confidence 0.
C23_ConfidenceUnlessScanError ==
    (scan.state = "returned" /\ scan.by = "scanFile" /\ ~scanResult.threw)
    => /\ scanResult.confidence \in 0..10
       /\ IF IsScanError(scanResult) THEN scanResult.confidence = 0
          ELSE scanResult.confidence = ExpectedConfidence(Len(scanResult.threats))

\* C23 witness: scanFile has returned a result with more than ten threats
C23_Witness ==
    /\ scan.state = "returned"
    /\ scan.by = "scanFile"
    /\ Len(scanResult.threats) > 10
    /\ scanResult.confidence = 0

\* C24: a file whose content contains the EICAR test string is reported as
\* not clean by scanFile under the built-in configurations and by
\* performSecurityScan.
C24_EicarBlocked ==
    ( /\ scan.state = "returned"
      /\ ~scan.file.isNull
      /\ scan.file.readable
      /\ ContainsEicar(scan.file.content)
      /\ ~scanResult.threw
      /\ scan.by = "scanFile"
         => config \in {SECURITY_CONFIGS.STRICT, SECURITY_CONFIGS.MODERATE,
                        SECURITY_CONFIGS.BASIC} )
    => ~scanResult.isClean

\* the result holds a threat of that name and severity
HasThreat(result, name, severity) ==
    \E i \in 1..Len(result.threats) :
        result.threats[i].name = name /\ result.threats[i].severity = severity

\* the first bytes of the file are those of the signature
LeadingBytes(file, signature) ==
    /\ FileSize(file) >= Len(signature)
    /\ SubSeq(FileBytes(file.content), 1, Len(signature)) = signature

\* the name ends in ".zip", whatever the case of its letters
EndsInZip(name) == Len(name) > 1 /\ name[Len(name)] \in {"zip", "ZIP"}

ThreatsNamed(result, name) ==
    { i \in 1..Len(result.threats) : result.threats[i].name = name }

\* the number of matches of a built-in injection rule in the text of a file:
\* the chunks of the model hold at most one match of a rule each
MatchesInText(rule, content) ==
    Cardinality({ j \in 1..Len(content) : InjectionMatches(rule, content[j]) > 0 })

\* C26: with enableInjectionDetection on and a file that can be read as
\* text, each of the five built-in injection rules that matches contributes
\* exactly one injection threat, which states the number of matches, and a
\* rule that does not match contributes none; with detection off the result
\* holds none of the five threats and no "Custom Pattern Match".
C26_OneThreatPerMatchedRule ==
    ( /\ scan.state = "returned"
      /\ scan.by = "scanFile"
      /\ ~scan.file.isNull
      /\ scan.file.readable
      /\ scan.file.name # NoName )
    => IF config.enableInjectionDetection
         THEN \A r \in 1..Len(injectionPatterns) :
                LET rule == injectionPatterns[r]
                    n == MatchesInText(rule.name, scan.file.content)
                    found == ThreatsNamed(scanResult, rule.name)
                IN  IF n = 0 THEN found = {}
                    ELSE /\ Cardinality(found) = 1
                         /\ \A i \in found :
                              /\ scanResult.threats[i].type = "injection"
                              /\ scanResult.threats[i].severity = rule.severity
                              /\ scanResult.threats[i].matches = n
       ELSE /\ \A r \in 1..Len(injectionPatterns) :
                 ThreatsNamed(scanResult, injectionPatterns[r].name) = {}
            /\ ThreatsNamed(scanResult, "Custom Pattern Match") = {}

\* C26 witness: with detection on, scanFile has returned one Code Injection
\* threat that states two matches
C26_Witness ==
    /\ scan.state = "returned"
    /\ scan.by = "scanFile"
    /\ config.enableInjectionDetection
    /\ MatchesInText("Code Injection", scan.file.content) = 2
    /\ \E i \in 1..Len(scanResult.threats) :
         /\ scanResult.threats[i].name = "Code Injection"
         /\ scanResult.threats[i].matches = 2

\* C26 second witness: with detection off, scanFile has returned for a file
\* that matches all five rules and a configured suspicious pattern list
C26_WitnessOff ==
    /\ scan.state = "returned"
    /\ scan.by = "scanFile"
    /\ ~config.enableInjectionDetection
    /\ config.suspiciousPatterns # <<>>
    /\ \E j \in 1..Len(scan.file.content) : scan.file.content[j] = "ATTACK"
    /\ ~scanResult.threw

\* C27: under STRICT a non-empty file that triggers no other detector is
\* reported clean by scanFile: the YARA stage adds a threat only when a rule
\* actually matches the content.
C27_StrictCleanFileIsClean ==
    ( /\ scan.state = "returned"
      /\ scan.by = "scanFile"
      /\ config = SECURITY_CONFIGS.STRICT
      /\ ~scan.file.isNull
      /\ scan.file.readable
      /\ FileSize(scan.file) > 0
      /\ ~scanResult.threw
      /\ \A i \in 1..Len(scanResult.threats) :
           scanResult.threats[i].type = "yara_match" )
    => scanResult.isClean

\* the upload has written its object to storage: storageBackend.upload has
\* succeeded, and uploadFile never calls storageBackend.delete
StoredByUpload == Has(trace, "store", "ok")

\* C28: whenever an upload fails, storage holds no object written by that
\* upload, also when the record creation, the afterStore hook or a later step
\* fails after the storage write has succeeded.
C28_FailedUploadLeavesNoObject ==
    (pc = "done" /\ outcome.kind = "threw") => ~StoredByUpload

RECURSIVE FreedBy(_, _)
FreedBy(listed, replies) ==
    IF replies = <<>> THEN 0
    ELSE (IF Head(replies) = "true" THEN Head(listed).fileSize ELSE 0)
         + FreedBy(Tail(listed), Tail(replies))

\* C30: cleanupExpiredFiles always returns a result.  When the listing
\* succeeded, deleteFile was tried for every listed file, deletedCount plus
\* the number of errors is the number of files listed, and freedSpace is the
\* sum of fileSize over the files whose deletion returned true; when the
\* listing failed, deletedCount and freedSpace are 0 and errors holds one
\* entry.
C30_CleanupAccountsForEveryFile ==
    cleanup.state = "returned"
    => IF cleanup.listingFailed
         THEN /\ cleanup.result.deletedCount = 0
              /\ cleanup.result.freedSpace = 0
              /\ Len(cleanup.result.errors) = 1
       ELSE /\ Len(cleanup.replies) = Len(cleanup.listed)
            /\ cleanup.result.deletedCount + Len(cleanup.result.errors)
                 = Len(cleanup.listed)
            /\ cleanup.result.deletedCount
                 = Cardinality({ i \in 1..Len(cleanup.replies) :
                                   cleanup.replies[i] = "true" })
            /\ cleanup.result.freedSpace = FreedBy(cleanup.listed, cleanup.replies)

\* C30 witness: cleanupExpiredFiles has returned after a deletion that threw,
\* one that returned false and one that returned true, in that order
C30_Witness ==
    /\ cleanup.state = "returned"
    /\ cleanup.replies = <<"rejected", "false", "true">>
    /\ cleanup.result.deletedCount = 1
    /\ Len(cleanup.result.errors) = 2

====
